---- MODULE Spec2Model ----
(***************************************************************************)
(* Markless: the per-document state cache (state.js: MarkdownEditorInfo,   *)
(* EditorState), the render scheduler and pipeline (runner.js) and the     *)
(* event handlers that drive them (extension.js).                          *)
(*                                                                         *)
(* A document's text is a sequence of one-character tokens; the external   *)
(* parser maps each token to one node of the tree:                         *)
(*   "t" plain text (no decorator)      "e" emphasis                       *)
(*   "l" list item                      "m" fenced mermaid code block      *)
(*   "i" image                                                             *)
(* All documents of this model have one line, so they are below the        *)
(* 500-line threshold of updateDecorations.                                *)
(***************************************************************************)
EXTENDS Integers, Sequences, FiniteSets, TLC

VARIABLES
    \* ---- host (vscode) ----
    docText,            \* document -> its current text (a sequence of tokens)
    winActive,          \* vscode.window.activeTextEditor
    visibleRanges,      \* the visibleRanges of the active editor: <<first line, last line>> each
    applied,            \* document -> decoration kind -> ranges shown by the host
    timers,             \* ids of the pending setTimeout timers
    \* ---- state.js: EditorState ----
    editors,            \* Map uri -> MarkdownEditorInfo
    editorQueue,        \* LRU queue of uris, oldest first
    activeEditor,       \* the active editor, or None
    currentMemoryUsage,
    maxMemoryUsage,
    enabled,
    config,             \* state.config: cursorDisables, cursorLineDisables
    decorationRanges,   \* state.decorationRanges (the process-wide map)
    \* ---- runner.js ----
    timeout,            \* the module variable `timeout`: a timer id or NoTimer
    traversals,         \* slot -> an in-flight visitNodes call
    microtasks,         \* FIFO of the slots whose continuation is queued
    imageThreadMap,     \* addInlineImages: uri -> (key -> comment thread [id, range])
    threads,            \* host: the live comment threads; threadCount: created so far
    threadCount,
    \* ---- what an observer of the run records ----
    trace,              \* what the last step did (host calls, log output, errors)
    recency,            \* the cached documents in the order of their last activation
    burst,              \* triggers since the last render, renders since the last trigger
    lastPass            \* what the last complete render pass left on the host, while its
                        \* inputs (text, selection, visible ranges) are unchanged

vars == <<docText, winActive, visibleRanges, applied, timers, editors, editorQueue, activeEditor,
          currentMemoryUsage, maxMemoryUsage, enabled, config, decorationRanges,
          timeout, traversals, microtasks, imageThreadMap, threads, threadCount,
          trace, recency, burst, lastPass>>

----------------------------------------------------------------------------
(* Bounds *)

MaxLen == 2             \* longest document text
MaxBudget == 5          \* the memory budget (maxMemoryUsage), in the units of the footprints
MaxDrift == 2           \* how far currentMemoryUsage may run from the cached sizes
MaxTraversals == 2      \* traversals in flight at once
MaxBurst == 2           \* triggers counted in one burst
MaxImages == 2          \* the images of a document
MaxThreads == 4         \* comment threads created in a run (threadCount)
LongLines == 501        \* the lines of a document rendered by windows
MaxStale == 2           \* ranges a document may hold when the editor switches to another
MaxUsage == 8           \* the running total on entry to checkAndCleanMemory
MaxOffset == 12         \* the largest offset base of a window given to normalizeList

(* Program constants *)

LineThreshold == 500    \* updateDecorations: documents of more lines are rendered by windows
WindowPad == 200        \* the lines added before and after a visible range

TextWeight == 2
ImageWeight == 1000
RangeWeight == 100

None == "none"
Docs == {"A", "B", "C"}                 \* markdown documents (uris)
OtherEditor == "N"                      \* a non-markdown editor, or no editor at all
Editors == Docs \cup {OtherEditor}
Kinds == {"hide", "bullet", "rainbow", "mermaid", "url"}

Min(a, b) == IF a < b THEN a ELSE b
Max(a, b) == IF a < b THEN b ELSE a

EmptyMap == [k \in {} |-> <<>>]
MapPut(m, k, v) == [x \in (DOMAIN m) \cup {k} |-> IF x = k THEN v ELSE m[x]]
MapDel(m, k) == [x \in (DOMAIN m) \ {k} |-> m[x]]

RECURSIVE SumOver(_, _)
SumOver(f, S) ==
    IF S = {} THEN 0
    ELSE LET x == CHOOSE y \in S : TRUE IN f[x] + SumOver(f, S \ {x})

IndexOf(q, x) == IF \E i \in 1..Len(q) : q[i] = x
                 THEN CHOOSE i \in 1..Len(q) : q[i] = x /\ \A j \in 1..(i-1) : q[j] # x
                 ELSE 0
Remove(q, i) == [j \in 1..(Len(q) - 1) |-> IF j < i THEN q[j] ELSE q[j + 1]]
Without(q, x) == LET i == IndexOf(q, x) IN IF i = 0 THEN q ELSE Remove(q, i)
ToSet(q) == {q[i] : i \in 1..Len(q)}
Restrict(q, S) ==
    LET RECURSIVE R(_)
        R(x) == IF x = <<>> THEN <<>>
                ELSE IF Head(x) \in S THEN <<Head(x)>> \o R(Tail(x)) ELSE R(Tail(x))
    IN  R(q)
NoDup(q) == \A i, j \in 1..Len(q) : i # j => q[i] # q[j]

----------------------------------------------------------------------------
(* state.js: MarkdownEditorInfo *)

IsMarkdown(e) == e \in Docs

CalculateSize(info) ==
    TextWeight * Len(info.text)
    + ImageWeight * Len(info.imageList)
    + SumOver([k \in DOMAIN info.decorationRanges |->
                  RangeWeight * Len(info.decorationRanges[k])],
              DOMAIN info.decorationRanges)

NewInfoRaw(e) == [text |-> docText[e], selection |-> <<0, 0>>,
                  decorationRanges |-> EmptyMap, imageList |-> <<>>, offset |-> 0,
                  size |-> 0]
MarkdownEditorInfo(e) == [NewInfoRaw(e) EXCEPT !.size = CalculateSize(NewInfoRaw(e))]

\* update(): re-read the text (`text` is what document.getText() returns),
\* recompute size
Update(info, text) ==
    LET i1 == [info EXCEPT !.text = text]
    IN  [i1 EXCEPT !.size = CalculateSize(i1)]

\* clearDecorations(): one host call per key, then clear the map
InfoClearCalls(info, e) ==
    LET ks == DOMAIN info.decorationRanges
        RECURSIVE Calls(_)
        Calls(S) == IF S = {} THEN <<>>
                    ELSE LET k == CHOOSE x \in S : TRUE
                         IN <<[call |-> "setDecorations", doc |-> e, kind |-> k,
                               ranges |-> <<>>]>> \o Calls(S \ {k})
    IN Calls(ks)

----------------------------------------------------------------------------
(* The host's view: editor.setDecorations(kind, ranges) replaces the ranges *)
(* the host shows for that kind.                                            *)

RECURSIVE ApplyCalls(_, _)
ApplyCalls(ap, calls) ==
    IF calls = <<>> THEN ap
    ELSE LET c == Head(calls)
         IN ApplyCalls(IF c.call = "setDecorations"
                       THEN [ap EXCEPT ![c.doc][c.kind] = c.ranges]
                       ELSE ap,
                       Tail(calls))

----------------------------------------------------------------------------
(* state.js: EditorState *)

\* getCurrentEditorState() on the given fields; None stands for null/undefined
CurrentUri(eds, active) ==
    IF active = None THEN None
    ELSE IF active \in DOMAIN eds THEN active ELSE None

GetCurrentEditorState == CurrentUri(editors, activeEditor)

\* The cache fields a call works on, with what the call has done so far:
\* the host calls made, the uris evicted (log.debug) and whether the active
\* document was requeued.
CacheNow == [editors |-> editors, queue |-> editorQueue, usage |-> currentMemoryUsage,
             calls |-> <<>>, evicted |-> <<>>, requeued |-> FALSE]

\* A checkAndCleanMemory that takes the most recently used entry first
EvictNewestFirst(c, active) ==
    LET newestUri == c.queue[Len(c.queue)]
        q1 == SubSeq(c.queue, 1, Len(c.queue) - 1)
    IN  IF newestUri \notin DOMAIN c.editors THEN [c EXCEPT !.queue = q1]
        ELSE IF newestUri = active
        THEN [c EXCEPT !.queue = <<newestUri>> \o q1, !.requeued = TRUE]
        ELSE [c EXCEPT !.queue = q1,
                       !.calls = @ \o InfoClearCalls(c.editors[newestUri], newestUri),
                       !.usage = @ - c.editors[newestUri].size,
                       !.editors = MapDel(@, newestUri),
                       !.evicted = Append(@, newestUri)]

\* A loop body that requeues whatever it shifts
RequeueAlways(c, active) ==
    [c EXCEPT !.queue = Append(Tail(c.queue), Head(c.queue)), !.requeued = TRUE]

\* One pass of the loop body of checkAndCleanMemory, the loop condition holding.
EvictStep(c, active) ==
    LET oldestUri == Head(c.queue)          \* editorQueue.shift()
        q1 == Tail(c.queue)
    IN  IF oldestUri \notin DOMAIN c.editors THEN [c EXCEPT !.queue = q1]
        ELSE IF oldestUri = active
        THEN [c EXCEPT !.queue = Append(q1, oldestUri), !.requeued = TRUE]
        ELSE [c EXCEPT !.queue = q1,
                       !.calls = @ \o InfoClearCalls(c.editors[oldestUri], oldestUri),
                       !.usage = @ - c.editors[oldestUri].size,
                       !.editors = MapDel(@, oldestUri),
                       !.evicted = Append(@, oldestUri)]

\* A checkAndCleanMemory that does not look at the budget
RECURSIVE CleanIgnoresBudget(_, _)
CleanIgnoresBudget(c, active) ==
    IF Len(c.queue) > 1
    THEN CleanIgnoresBudget(EvictStep(c, active), active)
    ELSE c

RECURSIVE CheckAndCleanMemory(_, _)
CheckAndCleanMemory(c, active) ==
    IF c.usage > maxMemoryUsage /\ Len(c.queue) > 1
    THEN CheckAndCleanMemory(EvictStep(c, active), active)
    ELSE c

\* setActiveEditor(editor), first sight of a markdown document
ActivateNew(c, uri) ==
    LET editorInfo == MarkdownEditorInfo(uri)
        c1 == [c EXCEPT !.editors = MapPut(@, uri, editorInfo),
                        !.usage = @ + editorInfo.size,
                        !.queue = Append(@, uri)]
    IN  CheckAndCleanMemory(c1, activeEditor)   \* this.activeEditor is still the old one

\* A reactivation that pushes the uri without removing its old queue entry
ReactivateKeepsOldEntry(c, uri) ==
    LET oldSize == c.editors[uri].size
        info == Update(c.editors[uri], docText[uri])
    IN  [c EXCEPT !.queue = Append(@, uri),
                  !.editors[uri] = info,
                  !.usage = @ + (info.size - oldSize)]

\* setActiveEditor(editor), a markdown document already cached
Reactivate(c, uri) ==
    LET oldSize == c.editors[uri].size
        info == Update(c.editors[uri], docText[uri])
    IN  [c EXCEPT !.queue = Append(Without(@, uri), uri),
                  !.editors[uri] = info,
                  !.usage = @ + (info.size - oldSize)]

\* A setActiveEditor that drops the cache when the editor is not a markdown one
SetActiveEditorForgets(editor) ==
    IF IsMarkdown(editor)
    THEN [c |-> IF editor \notin DOMAIN editors
                THEN ActivateNew(CacheNow, editor)
                ELSE Reactivate(CacheNow, editor),
          active |-> editor, ret |-> TRUE]
    ELSE [c |-> [CacheNow EXCEPT !.editors = EmptyMap, !.queue = <<>>, !.usage = 0],
          active |-> None, ret |-> FALSE]

\* setActiveEditor(editor): the cache fields after the call, the new active
\* pointer and the return value
SetActiveEditor(editor) ==
    IF IsMarkdown(editor)       \* editor && languageId === "markdown"
    THEN [c |-> IF editor \notin DOMAIN editors
                THEN ActivateNew(CacheNow, editor)
                ELSE Reactivate(CacheNow, editor),
          active |-> editor, ret |-> TRUE]
    ELSE [c |-> CacheNow, active |-> None, ret |-> FALSE]

----------------------------------------------------------------------------
(* The external parser.  One node per token; a list token yields            *)
(* list > listItem > paragraph, as the markdown parser nests them.          *)

Leaf(type, s, e) == [type |-> type, start |-> s, end |-> e, children |-> <<>>]

\* a list item with the given children after its paragraph, and a list
Item(s, children) == [type |-> "listItem", start |-> s, end |-> s + 1,
                      children |-> <<Leaf("paragraph", s, s + 1)>> \o children]
List(s, items) == [type |-> "list", start |-> s, end |-> s + 1, children |-> items]

\* "n": a list of three items, the second holding a list whose item holds a
\* list of one item with an emphasis
TokenNode(tok, s) ==
    CASE tok = "e" -> Leaf("emphasis", s, s + 1)
      [] tok = "n" -> List(s, <<Item(s, <<>>),
                                Item(s, <<List(s, <<Item(s, <<List(s,
                                    <<Item(s, <<Leaf("emphasis", s, s + 1)>>)>>)>>)>>)>>),
                                Item(s, <<>>)>>)
      [] tok = "m" -> Leaf("code", s, s + 1)
      [] tok = "i" -> Leaf("image", s, s + 1)
      [] tok = "l" -> [type |-> "list", start |-> s, end |-> s + 1, children |->
                        <<[type |-> "listItem", start |-> s, end |-> s + 1, children |->
                            <<Leaf("paragraph", s, s + 1)>>]>>]
      [] OTHER -> Leaf("text", s, s + 1)

\* "* x" after nothing but spaces on its line: the bullet of a list item
BulletAt(text, i) ==
    /\ text[i] = "*"
    /\ i + 2 <= Len(text)
    /\ text[i + 1] = " "
    /\ text[i + 2] # "\n"
    /\ \A k \in 1..(i - 1) :
           text[k] \in {" ", "\n"} \/ \E j \in (k + 1)..(i - 1) : text[j] = "\n"

\* the list the parser makes of the bullet at i: the item runs from the
\* bullet to the end of the line, its paragraph from the text after the bullet
LineEndFrom(text, i) ==
    IF \E j \in i..Len(text) : text[j] = "\n"
    THEN (CHOOSE j \in i..Len(text) : text[j] = "\n" /\ \A k \in i..(j - 1) : text[k] # "\n") - 1
    ELSE Len(text)
BulletList(s, e) ==
    [type |-> "list", start |-> s, end |-> e, children |->
        <<[type |-> "listItem", start |-> s, end |-> e, children |->
            <<Leaf("paragraph", s + 2, e)>>]>>]
NodeAt(text, i) ==
    IF BulletAt(text, i) THEN BulletList(i - 1, LineEndFrom(text, i))
    ELSE TokenNode(text[i], i - 1)

\* the nodes of the tokens of text in the order of the text; a line end
\* yields no node
Parser(text) ==
    LET at == {i \in 1..Len(text) : text[i] # "\n"}
        nth(j) == CHOOSE i \in at : Cardinality({x \in at : x < i}) = j - 1
    IN  [type |-> "root", start |-> 0, end |-> Len(text),
         children |-> [j \in 1..Cardinality(at) |-> NodeAt(text, nth(j))]]

\* state.types: the node types that have a decorator
HasDecorator(type) == type \in {"emphasis", "listItem", "code", "image"}

----------------------------------------------------------------------------
(* runner.js: posToRange, addDecoration *)

\* document.positionAt clamps an offset into the document
PositionAt(uri, off) == Max(0, Min(off, Len(docText[uri])))

\* document.lineCount
LineCount(text) == 1 + Cardinality({i \in 1..Len(text) : text[i] = "\n"})

\* document.offsetAt(new Position(line, 0)): the offset of the start of the
\* line, the end of the document for a line past the last one
OffsetAt(text, line) ==
    LET ends == {i \in 1..Len(text) : text[i] = "\n"}
    IN  IF line = 0 THEN 0
        ELSE IF line > Cardinality(ends) THEN Len(text)
        ELSE CHOOSE i \in ends : Cardinality({x \in ends : x <= i}) = line

\* document.getText(new Range(startLine, 0, endLine, 0))
GetText(text, range) == SubSeq(text, OffsetAt(text, range[1]) + 1, OffsetAt(text, range[2]))

\* posToRange(start, end) on the current editor state `uri` (not None)
PosToRange(eds, uri, start, end) ==
    LET a == PositionAt(uri, start + eds[uri].offset)
        b == PositionAt(uri, end + eds[uri].offset)
    IN  <<Min(a, b), Max(a, b)>>

\* addDecoration(decoration, startOffset, endOffset); uri is what
\* getCurrentEditorState() returns at the call
AddDecoration(eds, uri, kind, start, end) ==
    IF uri = None THEN eds
    ELSE LET dr == eds[uri].decorationRanges
             old == IF kind \in DOMAIN dr THEN dr[kind] ELSE <<>>
         IN  [eds EXCEPT ![uri].decorationRanges =
                            MapPut(dr, kind, Append(old, PosToRange(eds, uri, start, end)))]

----------------------------------------------------------------------------
(* extension.js: the decorators.  Each yields the editors map after its     *)
(* synchronous part, whether it threw, and whether it then waits for the    *)
(* external renderer.                                                       *)

DecResult(eds, error, waits) == [editors |-> eds, error |-> error, waits |-> waits]

\* 'emphasis'
DecEmphasis(eds, uri, node) ==
    DecResult(AddDecoration(AddDecoration(eds, uri, "hide", node.start, node.start + 1),
                            uri, "hide", node.end - 1, node.end),
              FALSE, FALSE)

\* 'listItem': log.debug(..., posToRange(start, _end).start.line, ...) dereferences
\* the result of posToRange, which is null when there is no current editor state
DecListItem(eds, uri, node, listLevel) ==
    IF uri = None THEN DecResult(eds, TRUE, FALSE)
    ELSE IF Len(node.children) = 0 THEN DecResult(eds, FALSE, FALSE)
    ELSE LET textStart == node.children[1].start
             textEnd == node.children[1].end
             e1 == AddDecoration(eds, uri, "bullet", node.start, textStart - 1)
         IN  DecResult(AddDecoration(e1, uri, "rainbow", textStart, textEnd), FALSE, FALSE)

\* 'code' (mermaid), up to its await of the rendered diagram
DecCode(eds, uri, node) ==
    IF uri = None THEN DecResult(eds, FALSE, FALSE)
    ELSE DecResult(eds, FALSE, TRUE)

\* 'code' (mermaid), after the await: addDecoration(decoration, start, end)
DecCodeResume(eds, uri, node) == AddDecoration(eds, uri, "mermaid", node.start, node.end)

\* An image decorator that queues its entry without looking for a duplicate
DecImageKeepsAll(eds, uri, node) ==
    IF uri = None THEN DecResult(eds, FALSE, FALSE)
    ELSE LET e1 == AddDecoration(eds, uri, "hide", node.start, node.start + 2)
             e2 == AddDecoration(e1, uri, "url", node.start + 2, node.end)
         IN  DecResult([e2 EXCEPT ![uri].imageList =
                            Append(@, <<PosToRange(eds, uri, node.start, node.end), "img">>)],
                       FALSE, FALSE)

\* 'image': two decorations, then the entry is queued unless a duplicate
DecImage(eds, uri, node) ==
    IF uri = None THEN DecResult(eds, FALSE, FALSE)
    ELSE LET e1 == AddDecoration(eds, uri, "hide", node.start, node.start + 2)
             e2 == AddDecoration(e1, uri, "url", node.start + 2, node.end)
             r == PosToRange(eds, uri, node.start, node.end)
             url == "img"
             list == e2[uri].imageList
             isDuplicate == \E i \in 1..Len(list) : list[i][2] = url /\ list[i][1][1] = r[1]
         IN  DecResult(IF isDuplicate THEN e2
                       ELSE [e2 EXCEPT ![uri].imageList = Append(@, <<r, url>>)],
                       FALSE, FALSE)

Decorate(eds, uri, node, listLevel) ==
    CASE node.type = "emphasis" -> DecEmphasis(eds, uri, node)
      [] node.type = "listItem" -> DecListItem(eds, uri, node, listLevel)
      [] node.type = "code" -> DecCode(eds, uri, node)
      [] node.type = "image" -> DecImage(eds, uri, node)
      [] OTHER -> DecResult(eds, FALSE, FALSE)

----------------------------------------------------------------------------
(* runner.js: visitNodes.  A traversal in flight is the suspended coroutine: *)
(* the explicit stack (top at the end), the node whose decorator call is    *)
(* awaited and its listLevel.  phase "visit": suspended at `await dec(...)`; *)
(* phase "finalize": finished, `.then(setDecorations)` is queued.           *)

NoNode == Leaf("none", 0, 0)
Slots == 1..MaxTraversals
IdleTraversal == [status |-> "idle", phase |-> "visit", stack |-> <<>>,
                  cur |-> NoNode, level |-> 0, base |-> 0, doc |-> None, seen |-> <<>>]

Entry(node, listLevel) == [node |-> node, level |-> listLevel]
PushChildren(stack, node, listLevel) ==
    stack \o [i \in 1..Len(node.children) |-> Entry(node.children[i], listLevel)]

\* The loop of visitNodes from the top of an iteration up to the next
\* suspension: pops nodes, descends through nodes without a decorator, and
\* runs the synchronous part of the first decorator it meets.
RECURSIVE VisitLoop(_, _)
VisitLoop(stack, eds) ==
    IF stack = <<>>
    THEN [stack |-> <<>>, editors |-> eds, cur |-> NoNode, level |-> 0, outcome |-> "done"]
    ELSE LET top == stack[Len(stack)]                       \* stack.pop()
             rest == SubSeq(stack, 1, Len(stack) - 1)
         IN  IF HasDecorator(top.node.type)
             THEN LET r == Decorate(eds, CurrentUri(eds, activeEditor), top.node, top.level)
                  IN  [stack |-> rest, editors |-> r.editors, cur |-> top.node,
                       level |-> top.level,
                       outcome |-> IF r.error THEN "error"
                                   ELSE IF r.waits THEN "waiting" ELSE "suspended"]
             ELSE VisitLoop(PushChildren(rest, top.node, top.level), eds)

\* A resumption whose increment of listLevel stays with the nodes still on
\* the stack, the siblings of the list item among them
VisitResumeLeaks(trav, eds) ==
    LET listLevel == IF trav.cur.type = "listItem" THEN trav.level + 1 ELSE trav.level
        leaked == [i \in DOMAIN trav.stack |->
                      Entry(trav.stack[i].node,
                            trav.stack[i].level + (listLevel - trav.level))]
    IN  VisitLoop(PushChildren(leaked, trav.cur, listLevel), eds)

\* The rest of the iteration after `await dec(...)` returns, then the loop
VisitResume(trav, eds) ==
    LET listLevel == IF trav.cur.type = "listItem" THEN trav.level + 1 ELSE trav.level
    IN  VisitLoop(PushChildren(trav.stack, trav.cur, listLevel), eds)

\* The traversal record after a run of the loop that ended with outcome r
Suspended(r) ==
    CASE r.outcome = "error" -> IdleTraversal               \* the promise rejects
      [] r.outcome = "done" -> [status |-> "ready", phase |-> "finalize", stack |-> <<>>,
                                cur |-> NoNode, level |-> 0, base |-> 0, doc |-> None, seen |-> <<>>]
      [] r.outcome = "waiting" -> [status |-> "waiting", phase |-> "visit",
                                   stack |-> r.stack, cur |-> r.cur, level |-> r.level,
                                   base |-> 0, doc |-> None, seen |-> <<>>]
      [] OTHER -> [status |-> "ready", phase |-> "visit", stack |-> r.stack,
                   cur |-> r.cur, level |-> r.level, base |-> 0, doc |-> None,
                   seen |-> <<>>]

\* base: the offset base constructDecorations computed for the text the
\* traversal walks (the code keeps no such record: it is what the observer notes)
WithBase(trav, base) == IF trav.status = "idle" THEN trav ELSE [trav EXCEPT !.base = base]

\* doc: the document the traversal was started for; seen: the decorator calls
\* it has made so far, each with the node's type, its offsets and the
\* listLevel passed (what the observer notes, as for base)
Invocation(node, listLevel) == [type |-> node.type, start |-> node.start, end |-> node.end,
                                level |-> listLevel]
SeenAfter(seen, r) == IF r.outcome = "done" THEN seen
                      ELSE Append(seen, Invocation(r.cur, r.level))
Observed(trav, doc, seen) ==
    IF trav.status = "idle" THEN trav ELSE [trav EXCEPT !.doc = doc, !.seen = seen]

----------------------------------------------------------------------------
(* runner.js: updateSelectionToLine, setDecorations, addInlineImages *)

Intersects(sel, r) == Max(sel[1], r[1]) <= Min(sel[2], r[2])
Filter(ranges, sel) ==
    LET RECURSIVE F(_)
        F(q) == IF q = <<>> THEN <<>>
                ELSE IF Intersects(sel, Head(q)) THEN F(Tail(q))
                ELSE <<Head(q)>> \o F(Tail(q))
    IN  F(ranges)

\* document.lineAt(position).range: the start and the end of the line of an
\* offset (an offset after a line end is on the next line)
LineStartOf(text, off) ==
    LET ends == {i \in 1..Len(text) : text[i] = "\n" /\ i <= off}
    IN  IF ends = {} THEN 0 ELSE CHOOSE i \in ends : \A j \in ends : j <= i
LineEndOf(text, off) ==
    LET ends == {i \in 1..Len(text) : text[i] = "\n" /\ i - 1 >= off}
    IN  IF ends = {} THEN Len(text) ELSE (CHOOSE i \in ends : \A j \in ends : i <= j) - 1
LinesOf(text, sel) == <<LineStartOf(text, sel[1]), LineEndOf(text, sel[2])>>

\* updateSelectionToLine()
UpdateSelectionToLine(eds, uri) ==
    [eds EXCEPT ![uri].selection = LinesOf(docText[uri], @)]

\* The body of the for loop of setDecorations, over the kinds in the order
\* `order`; r carries the editors map and the host calls made.
RECURSIVE SetDecorationsLoop(_, _, _)
SetDecorationsLoop(r, uri, order) ==
    IF order = <<>> THEN r
    ELSE LET kind == Head(order)
             e1 == IF config.cursorLineDisables
                   THEN UpdateSelectionToLine(r.editors, uri) ELSE r.editors
             all == e1[uri].decorationRanges[kind]
             ranges == IF config.cursorDisables THEN Filter(all, e1[uri].selection)
                       ELSE all
             e2 == IF ranges = <<>>
                   THEN [e1 EXCEPT ![uri].decorationRanges = MapDel(@, kind)]
                   ELSE e1
         IN  SetDecorationsLoop(
                 [editors |-> e2,
                  calls |-> Append(r.calls, [call |-> "setDecorations", doc |-> uri,
                                             kind |-> kind, ranges |-> ranges])],
                 uri, Tail(order))

RECURSIVE SetToSeq(_)
SetToSeq(S) == IF S = {} THEN <<>>
               ELSE LET x == CHOOSE y \in S : TRUE IN <<x>> \o SetToSeq(S \ {x})

\* The string Array.prototype.toString makes of a vscode.Range inside
\* [documentUriString, matchRange, url].toString(): the class defines no
\* toString, so every range reads "[object Object]"
RangeToString(range) == "[object Object]"

\* the key of an image list entry
ThreadKey(uri, entry) == <<uri, RangeToString(entry[1]), entry[2]>>

\* addInlineImages(): reconcile the image list of `uri` against the threads of
\* the previous generation.  im: [last, new, count, live, calls]; a thread
\* is its identity and the range it was created at
RECURSIVE ReconcileLoop(_, _, _)
ReconcileLoop(im, uri, list) ==
    IF list = <<>> THEN im
    ELSE LET key == ThreadKey(uri, Head(list))
         IN  IF key \in DOMAIN im.last
             THEN ReconcileLoop([im EXCEPT !.new = MapPut(@, key, im.last[key]),
                                           !.last = MapDel(@, key)],
                                uri, Tail(list))
             ELSE ReconcileLoop([im EXCEPT !.new = MapPut(@, key, [id |-> im.count + 1,
                                                                   range |-> Head(list)[1]]),
                                           !.count = @ + 1,
                                           !.live = @ \cup {im.count + 1},
                                           !.calls = Append(@, [call |-> "createCommentThread",
                                                                doc |-> uri, kind |-> "thread",
                                                                ranges |-> <<Head(list)[1]>>])],
                                uri, Tail(list))

AddInlineImages(eds, uri) ==
    LET im0 == [last |-> imageThreadMap[uri], new |-> EmptyMap, count |-> threadCount,
                live |-> threads, calls |-> <<>>]
        im == ReconcileLoop(im0, uri, eds[uri].imageList)
        stale == {im.last[k].id : k \in DOMAIN im.last}
    IN  [editors |-> [eds EXCEPT ![uri].imageList = <<>>],
         map |-> [imageThreadMap EXCEPT ![uri] = im.new],
         live |-> im.live \ stale,                          \* thread.dispose()
         count |-> im.count,
         calls |-> im.calls \o [i \in 1..Cardinality(stale) |->
                                  [call |-> "dispose", doc |-> uri, kind |-> "thread",
                                   ranges |-> <<>>]]]

\* setDecorations(): what the finalize step does to the editors map, the
\* thread map and the host
SetDecorations(eds) ==
    LET uri == CurrentUri(eds, activeEditor)
    IN  IF uri = None
        THEN [editors |-> eds, map |-> imageThreadMap, live |-> threads,
              count |-> threadCount, calls |-> <<>>]
        ELSE LET r == SetDecorationsLoop([editors |-> eds, calls |-> <<>>], uri,
                                         SetToSeq(DOMAIN eds[uri].decorationRanges))
                 im == AddInlineImages(r.editors, uri)
             IN  [im EXCEPT !.calls = r.calls \o @]

----------------------------------------------------------------------------
(* runner.js: triggerUpdateDecorations.  sch: [timeout, timers, burst]      *)

NoTimer == 0             \* `timeout` is undefined

SchedNow == [timeout |-> timeout, timers |-> timers, burst |-> burst]

\* setTimeout returns an id that no timer set earlier has: the least one that
\* is neither pending nor the id last returned
FreshTimer(ts, last) == CHOOSE id \in 1..(Cardinality(ts) + 2) :
                            /\ id \notin ts \cup {last}
                            /\ \A j \in 1..(id - 1) : j \in ts \cup {last}

CountTrigger(b) == [triggers |-> IF b.runs > 0 THEN 1 ELSE Min(b.triggers + 1, MaxBurst),
                    runs |-> 0]

\* A trigger that schedules a render without clearing the pending timer
TriggerWithoutCancel(sch, on) ==
    IF ~on THEN sch
    ELSE LET id == FreshTimer(sch.timers, sch.timeout)
         IN  [timeout |-> id, timers |-> sch.timers \cup {id},
              burst |-> CountTrigger(sch.burst)]

TriggerUpdateDecorations(sch, on) ==
    IF ~on THEN sch                                         \* if (!state.enabled) return
    ELSE LET cleared == IF sch.timeout # NoTimer                \* clearTimeout(timeout)
                        THEN sch.timers \ {sch.timeout} ELSE sch.timers
             id == FreshTimer(cleared, sch.timeout)          \* setTimeout(...)
         IN  [timeout |-> id, timers |-> cleared \cup {id},
              burst |-> CountTrigger(sch.burst)]

----------------------------------------------------------------------------
(* runner.js: normalizeList.  Here a text is read character by character:   *)
(* " " a space, "\n" a line end, "*" "-" "+" bullet markers, "1" a digit,    *)
(* "." ")" the ends of an ordered marker, "~" a fence character (a tilde or  *)
(* a backquote: the code treats the two alike).                             *)

Spaces(n) == [i \in 1..n |-> " "]
IsLineStart(t, i) == i = 1 \/ t[i - 1] = "\n"                 \* ^ with the m flag

\* the length of the longest run of characters of S that starts at i
RECURSIVE RunLen(_, _, _)
RunLen(t, i, S) == IF i <= Len(t) /\ t[i] \in S THEN 1 + RunLen(t, i + 1, S) ELSE 0

\* \d+(?:\.|\)) at j, where d digits start: the length of the marker or 0
OrderedLen(t, j, d) ==
    IF d > 0 /\ j + d <= Len(t) /\ t[j + d] \in {".", ")"} THEN d + 1 ELSE 0

\* (\*|\d+(?:\.|\))|-|\+) at j: the length of the marker, 0 when there is none
MarkerLen(t, j) ==
    IF j > Len(t) THEN 0
    ELSE IF t[j] \in {"*", "-", "+"} THEN 1
    ELSE OrderedLen(t, j, RunLen(t, j, {"1"}))

\* " ." after a marker of length m that starts at j
MarkerFits(t, j, m) ==
    /\ m > 0
    /\ j + m + 1 <= Len(t)
    /\ t[j + m] = " "
    /\ t[j + m + 1] # "\n"

\* "( {min,})(marker) ." at i, where n spaces start
IndentFits(t, i, n, min) == n >= min /\ MarkerFits(t, i + n, MarkerLen(t, i + n))

\* "^( {min,})(marker) ." matches at i
ListMatchAt(t, i, min) == IsLineStart(t, i) /\ IndentFits(t, i, RunLen(t, i, {" "}), min)

\* the groups of the match at i, where n spaces start
Groups(t, i, n) == [found |-> TRUE, spaces |-> n, marker |-> MarkerLen(t, i + n)]

\* new RegExp(pattern, "m").exec(text): the leftmost match, or found = FALSE
ListMatchFirst(t, min) == CHOOSE k \in 1..Len(t) :
                              ListMatchAt(t, k, min) /\ \A j \in 1..(k - 1) : ~ListMatchAt(t, j, min)
ListMatchFrom(t, i) == Groups(t, i, RunLen(t, i, {" "}))
ListMatch(t, min) ==
    IF \E i \in 1..Len(t) : ListMatchAt(t, i, min)
    THEN ListMatchFrom(t, ListMatchFirst(t, min))
    ELSE [found |-> FALSE, spaces |-> 0, marker |-> 0]

\* three or more fence characters and a line end, where f fence characters start at j
FenceFits(t, j, f) == f >= 3 /\ j + f <= Len(t) /\ t[j + f] = "\n"
FenceAt(t, j) == FenceFits(t, j, RunLen(t, j, {"~"}))

\* the fence pattern, "^ *" then three or more fence characters then a line
\* end, matches at i
CodeMatchAt(t, i) == IsLineStart(t, i) /\ FenceAt(t, i + RunLen(t, i, {" "}))

\* the leftmost match of the fence pattern and the index of its last character
CodeMatchFirst(t) == CHOOSE k \in 1..Len(t) :
                         CodeMatchAt(t, k) /\ \A j \in 1..(k - 1) : ~CodeMatchAt(t, j)
FenceEnd(t, j) == j + RunLen(t, j, {"~"})
CodeMatchEnd(t, i) == FenceEnd(t, i + RunLen(t, i, {" "}))

\* the synthetic list of maxLevel nested items, level 0 first
RECURSIVE ListPrefix(_, _, _, _)
ListPrefix(level, maxLevel, spacesPerLevel, listItem) ==
    IF level >= maxLevel THEN <<>>
    ELSE Spaces(spacesPerLevel * level) \o listItem
         \o ListPrefix(level + 1, maxLevel, spacesPerLevel, listItem)

ListItem(match) == IF match.marker > 1 THEN <<"1", ".", " ", "a", "\n">>
                   ELSE <<"*", " ", "a", "\n">>
SpacesPerLevel(match, nextMatch) ==
    IF nextMatch.found THEN nextMatch.spaces - match.spaces ELSE 4
LevelsPrefix(match, spacesPerLevel) ==
    ListPrefix(0, match.spaces \div spacesPerLevel, spacesPerLevel, ListItem(match))
    \o <<"\n">>

\* the prefix after `if (match) {...}`
ListPart(t, match) ==
    IF match.found
    THEN LevelsPrefix(match, SpacesPerLevel(match, ListMatch(t, match.spaces + 2)))
    ELSE <<>>

\* the prefix after `if (codeMatch && text[codeMatch.index + 4] == '\n')`, for
\* the fence match at i and the prefix p1 computed so far
CodePart(t, i, p1) ==
    IF i + 4 <= Len(t) /\ t[i + 4] = "\n" THEN SubSeq(t, i, CodeMatchEnd(t, i)) ELSE p1
FencePart(t, p1) ==
    IF \E i \in 1..Len(t) : CodeMatchAt(t, i) THEN CodePart(t, CodeMatchFirst(t), p1) ELSE p1

\* the prefix normalizeList computes for the text t
Prefix(t) == FencePart(t, ListPart(t, ListMatch(t, 2)))

\* A normalizeList that prepends the prefix whatever the offset base is
PrependUnguarded(info, prefix) ==
    IF prefix # <<>>
    THEN [info EXCEPT !.offset = @ - Len(prefix), !.text = prefix \o @]
    ELSE info
NormalizeListUnguarded(info) == PrependUnguarded(info, Prefix(info.text))

\* `if (prefix && editorState.offset >= prefix.length) {...}`
Prepend(info, prefix) ==
    IF prefix # <<>> /\ info.offset >= Len(prefix)
    THEN [info EXCEPT !.offset = @ - Len(prefix), !.text = prefix \o @]
    ELSE info

\* normalizeList() on the current editor state
NormalizeList(info) == Prepend(info, Prefix(info.text))

----------------------------------------------------------------------------
(* What the last step did *)

Quiet == [op |-> "init", calls |-> <<>>, evicted |-> <<>>, requeued |-> FALSE,
          error |-> FALSE, noState |-> FALSE]

\* The sum of the size fields of the cached documents, and the bound that
\* keeps the running total within MaxDrift of it (the total is an unbounded
\* counter: nothing in the code ties it to the sizes)
CachedSize(eds) == SumOver([d \in DOMAIN eds |-> eds[d].size], DOMAIN eds)
WithinDrift(usage, eds) ==
    /\ usage - CachedSize(eds) <= MaxDrift
    /\ CachedSize(eds) - usage <= MaxDrift

\* The event loop runs a macrotask (an event handler, a timer, the completion
\* of an external render) only when no microtask is queued.
Macrotask == microtasks = <<>>

FreeSlotOf(travs) == CHOOSE i \in Slots : travs[i].status = "idle"
                                           /\ \A j \in 1..(i - 1) : travs[j].status # "idle"
FreeSlot == FreeSlotOf(traversals)

\* lastPass when no complete pass stands for the current inputs
NoPass == [complete |-> FALSE, applied |-> [k \in Kinds |-> <<>>]]

----------------------------------------------------------------------------
(* extension.js: the event handlers *)

\* onDidChangeActiveTextEditor(editor)
ChangeActiveTextEditor(editor) ==
    /\ Macrotask
    /\ editor # winActive
    /\ LET r == SetActiveEditor(editor)
           uri == IF r.ret THEN CurrentUri(r.c.editors, r.active) ELSE None
           sch == IF uri # None THEN TriggerUpdateDecorations(SchedNow, enabled)
                  ELSE SchedNow
       IN  /\ winActive' = editor
           /\ editors' = IF uri # None
                         THEN [r.c.editors EXCEPT ![uri] = Update(@, docText[uri])]
                         ELSE r.c.editors
           /\ editorQueue' = r.c.queue
           /\ currentMemoryUsage' = r.c.usage
           /\ activeEditor' = r.active
           /\ applied' = ApplyCalls(applied, r.c.calls)
           /\ timeout' = sch.timeout
           /\ timers' = sch.timers
           /\ burst' = sch.burst
           /\ trace' = [Quiet EXCEPT !.op = "activate", !.calls = r.c.calls,
                                     !.evicted = r.c.evicted,
                                     !.requeued = r.c.requeued]
           /\ WithinDrift(currentMemoryUsage', editors')
           /\ recency' = IF r.ret
                         THEN Restrict(Append(Without(recency, editor), editor),
                                       DOMAIN editors')
                         ELSE recency
    /\ lastPass' = NoPass
    /\ UNCHANGED <<docText, maxMemoryUsage, visibleRanges, enabled, config, decorationRanges,
                   traversals, microtasks, imageThreadMap, threads, threadCount>>

\* onDidChangeTextDocument(event): the document `doc` now has the text `text`
ChangeTextDocument(doc, text) ==
    /\ Macrotask
    /\ text # docText[doc]
    /\ docText' = [docText EXCEPT ![doc] = text]
    /\ LET uri == GetCurrentEditorState
           mine == uri # None /\ doc = uri
           sch == IF mine THEN TriggerUpdateDecorations(SchedNow, enabled) ELSE SchedNow
       IN  /\ editors' = IF mine THEN [editors EXCEPT ![uri] = Update(@, text)]
                         ELSE editors
           /\ timeout' = sch.timeout
           /\ timers' = sch.timers
           /\ burst' = sch.burst
           /\ WithinDrift(currentMemoryUsage, editors')
           /\ trace' = [Quiet EXCEPT !.op = "event", !.noState = (uri = None)]
    /\ lastPass' = NoPass
    /\ UNCHANGED <<winActive, applied, editorQueue, activeEditor, currentMemoryUsage,
                   maxMemoryUsage, visibleRanges, enabled, config, decorationRanges, traversals,
                   microtasks, imageThreadMap, threads, threadCount, recency>>

\* onDidChangeTextEditorSelection(e): e.selections[0] is `sel`
ChangeTextEditorSelection(sel) ==
    /\ Macrotask
    /\ LET uri == GetCurrentEditorState
           sch == IF uri # None THEN TriggerUpdateDecorations(SchedNow, enabled)
                  ELSE SchedNow
       IN  /\ editors' = IF uri # None
                         THEN [editors EXCEPT
                                  ![uri] = Update([@ EXCEPT !.selection = sel], docText[uri])]
                         ELSE editors
           /\ timeout' = sch.timeout
           /\ timers' = sch.timers
           /\ burst' = sch.burst
           /\ WithinDrift(currentMemoryUsage, editors')
           /\ trace' = [Quiet EXCEPT !.op = "event", !.noState = (uri = None)]
           /\ lastPass' = IF uri # None /\ sel # editors[uri].selection THEN NoPass
                           ELSE lastPass
    /\ UNCHANGED <<docText, winActive, applied, editorQueue, activeEditor,
                   currentMemoryUsage, maxMemoryUsage, visibleRanges, enabled, config, decorationRanges,
                   traversals, microtasks, imageThreadMap, threads, threadCount, recency>>

\* onDidChangeTextEditorVisibleRanges(event), for the window's active editor:
\* it now shows `ranges`
ChangeVisibleRanges(ranges) ==
    /\ Macrotask
    /\ IsMarkdown(winActive)
    /\ ranges # visibleRanges
    /\ visibleRanges' = ranges
    /\ LET uri == GetCurrentEditorState
           mine == /\ uri # None
                   /\ LineCount(docText[uri]) > LineThreshold
                   /\ winActive = uri
           sch == IF mine THEN TriggerUpdateDecorations(SchedNow, enabled) ELSE SchedNow
       IN  /\ timeout' = sch.timeout
           /\ timers' = sch.timers
           /\ burst' = sch.burst
           /\ trace' = [Quiet EXCEPT !.op = "event", !.noState = (uri = None)]
    /\ lastPass' = NoPass
    /\ UNCHANGED <<docText, winActive, applied, editors, editorQueue, activeEditor,
                   currentMemoryUsage, maxMemoryUsage, enabled, config, decorationRanges,
                   traversals, microtasks, imageThreadMap, threads, threadCount, recency>>

\* clearDecorations() of extension.js: one host call per key of
\* state.decorationRanges, on state.activeEditor
ClearDecorations ==
    [i \in 1..Cardinality(DOMAIN decorationRanges) |->
        [call |-> "setDecorations", doc |-> activeEditor,
         kind |-> SetToSeq(DOMAIN decorationRanges)[i], ranges |-> <<>>]]

\* bootstrap(context), from onDidChangeConfiguration when state.activeEditor is set
ChangeConfiguration ==
    /\ Macrotask
    /\ LET boot == activeEditor # None
           calls == IF boot THEN ClearDecorations ELSE <<>>
           active == IF ~boot THEN activeEditor
                     ELSE IF IsMarkdown(winActive) THEN winActive ELSE None
           sch == IF boot /\ IsMarkdown(winActive)
                  THEN TriggerUpdateDecorations(SchedNow, TRUE) ELSE SchedNow
       IN  /\ enabled' = IF boot THEN TRUE ELSE enabled
           /\ decorationRanges' = IF boot THEN EmptyMap ELSE decorationRanges
           /\ activeEditor' = active
           /\ applied' = ApplyCalls(applied, calls)
           /\ timeout' = sch.timeout
           /\ timers' = sch.timers
           /\ burst' = sch.burst
           /\ trace' = [Quiet EXCEPT !.op = "event", !.calls = calls]
           /\ lastPass' = IF boot /\ (~enabled \/ active # activeEditor) THEN NoPass
                           ELSE lastPass
    /\ UNCHANGED <<docText, winActive, editors, editorQueue, currentMemoryUsage,
                   maxMemoryUsage, visibleRanges, config, traversals, microtasks, imageThreadMap,
                   threads, threadCount, recency>>

\* toggle(), the command markless.toggle
Toggle ==
    /\ Macrotask
    /\ LET calls == IF enabled THEN ClearDecorations ELSE <<>>
           sch == IF enabled THEN SchedNow ELSE TriggerUpdateDecorations(SchedNow, TRUE)
       IN  /\ enabled' = ~enabled
           /\ applied' = ApplyCalls(applied, calls)
           /\ timeout' = sch.timeout
           /\ timers' = sch.timers
           /\ burst' = sch.burst
           /\ trace' = [Quiet EXCEPT !.op = IF enabled THEN "disable" ELSE "enable",
                                     !.calls = calls]
    /\ lastPass' = NoPass
    /\ UNCHANGED <<docText, winActive, editors, editorQueue, activeEditor,
                   currentMemoryUsage, maxMemoryUsage, visibleRanges, config, decorationRanges,
                   traversals, microtasks, imageThreadMap, threads, threadCount, recency>>

----------------------------------------------------------------------------
(* runner.js: the render pass *)

\* The ranges updateDecorations() passes to constructDecorations: one window
\* per visible range for a document of more than 500 lines, else no range
WholeDocument == <<>>
Windows(uri) ==
    IF LineCount(docText[uri]) > LineThreshold
    THEN [i \in 1..Len(visibleRanges) |->
             <<Max(visibleRanges[i][1] - WindowPad, 0), visibleRanges[i][2] + WindowPad>>]
    ELSE <<WholeDocument>>

\* constructDecorations(range) up to the call of the parser: the text and the
\* offset base of the editor state `uri`
WindowState(eds, uri, range) ==
    IF range = WholeDocument
    THEN [eds EXCEPT ![uri].text = docText[uri], ![uri].offset = 0]
    ELSE [eds EXCEPT ![uri] = NormalizeList([@ EXCEPT
                                  !.text = GetText(docText[uri], range),
                                  !.offset = OffsetAt(docText[uri], range[1])])]

\* constructDecorations(range), up to the first suspension of visitNodes.
\* st: [editors, traversals, microtasks, error]
\* st after the traversal `trav` has been put in the free slot `slot`
Launched(st, slot, trav, error) ==
    [editors |-> st.editors,
     traversals |-> [st.traversals EXCEPT ![slot] = trav],
     microtasks |-> IF trav.status = "ready" THEN Append(st.microtasks, slot)
                    ELSE st.microtasks,
     error |-> st.error \/ error]
\* r: visitNodes(node) up to its first suspension, base: the offset base it ran under
VisitStarted(st, uri, r, base) ==
    Launched([st EXCEPT !.editors = r.editors], FreeSlotOf(st.traversals),
             Observed(WithBase(Suspended(r), base), uri, SeenAfter(<<>>, r)),
             r.outcome = "error")
\* e1: the editors map when the parser is called
Parsed(st, uri, e1) ==
    VisitStarted(st, uri, VisitLoop(<<Entry(Parser(e1[uri].text), 0)>>, e1), e1[uri].offset)
ConstructDecorations(st, uri, range) == Parsed(st, uri, WindowState(st.editors, uri, range))

\* updateDecorations() on the current editor state `uri` (not None): reset the
\* known kinds, then constructDecorations for each window in turn
RECURSIVE ConstructAll(_, _, _)
ConstructAll(st, uri, ranges) ==
    IF ranges = <<>> THEN st
    ELSE ConstructAll(ConstructDecorations(st, uri, Head(ranges)), uri, Tail(ranges))

UpdateDecorations(uri) ==
    ConstructAll([editors |-> [editors EXCEPT
                                  ![uri].decorationRanges = [k \in DOMAIN @ |-> <<>>]],
                  traversals |-> traversals, microtasks |-> microtasks, error |-> FALSE],
                 uri, Windows(uri))

\* the state after updateDecorations() returned r
RenderStarted(r) ==
    /\ editors' = r.editors
    /\ traversals' = r.traversals
    /\ microtasks' = r.microtasks
    /\ trace' = [Quiet EXCEPT !.op = "render", !.error = r.error]

\* A timer set by triggerUpdateDecorations expires: updateDecorations()
TimerFires(id) ==
    /\ Macrotask
    /\ id \in timers
    /\ \E i \in Slots : traversals[i].status = "idle"
    /\ GetCurrentEditorState # None =>
           Cardinality({i \in Slots : traversals[i].status = "idle"})
               >= Len(Windows(GetCurrentEditorState))
    /\ threadCount + MaxImages <= MaxThreads
    /\ timers' = timers \ {id}
    /\ burst' = [burst EXCEPT !.runs = Min(@ + 1, 2)]
    /\ LET uri == GetCurrentEditorState
       IN  IF uri = None
           THEN /\ UNCHANGED <<editors, traversals, microtasks>>
                /\ trace' = [Quiet EXCEPT !.op = "render", !.noState = TRUE]
           ELSE RenderStarted(UpdateDecorations(uri))
    /\ UNCHANGED <<docText, winActive, applied, editorQueue, activeEditor,
                   currentMemoryUsage, maxMemoryUsage, visibleRanges, enabled, config, decorationRanges,
                   timeout, imageThreadMap, threads, threadCount, recency, lastPass>>

\* The continuation at the head of the microtask queue runs: a traversal
\* resumes after `await dec(...)`, or a finished one runs setDecorations.
Microtask ==
    /\ microtasks # <<>>
    /\ LET slot == Head(microtasks)
           trav == traversals[slot]
           uri == GetCurrentEditorState
       IN  IF trav.phase = "finalize"
           THEN LET r == SetDecorations(editors)
                IN  /\ editors' = r.editors
                    /\ imageThreadMap' = r.map
                    /\ threads' = r.live
                    /\ threadCount' = r.count
                    /\ applied' = ApplyCalls(applied, r.calls)
                    /\ traversals' = [traversals EXCEPT ![slot] = IdleTraversal]
                    /\ microtasks' = Tail(microtasks)
                    /\ trace' = [Quiet EXCEPT !.op = "finalize", !.calls = r.calls,
                                              !.noState = (uri = None)]
                    /\ lastPass' = IF uri # None
                                      /\ \A i \in Slots : traversals'[i].status = "idle"
                                    THEN [complete |-> TRUE, applied |-> applied'[uri]]
                                    ELSE lastPass
           ELSE LET r == VisitResume(trav, editors)
                    next == Observed(WithBase(Suspended(r), trav.base), trav.doc,
                                     SeenAfter(trav.seen, r))
                IN  /\ editors' = r.editors
                    /\ traversals' = [traversals EXCEPT ![slot] = next]
                    /\ microtasks' = IF next.status = "ready"
                                     THEN Append(Tail(microtasks), slot)
                                     ELSE Tail(microtasks)
                    /\ trace' = [Quiet EXCEPT !.op = "visit", !.noState = (uri = None),
                                              !.error = (r.outcome = "error")]
                    /\ UNCHANGED <<applied, imageThreadMap, threads, threadCount, lastPass>>
    /\ UNCHANGED <<docText, winActive, timers, editorQueue, activeEditor,
                   currentMemoryUsage, maxMemoryUsage, visibleRanges, enabled, config, decorationRanges,
                   timeout, recency, burst>>

\* The external renderer answers the mermaid decorator suspended in `slot`:
\* the decorator adds its decoration and the traversal's continuation is queued.
MermaidRendered(slot) ==
    /\ Macrotask
    /\ traversals[slot].status = "waiting"
    /\ editors' = DecCodeResume(editors, GetCurrentEditorState, traversals[slot].cur)
    /\ traversals' = [traversals EXCEPT ![slot].status = "ready"]
    /\ microtasks' = Append(microtasks, slot)
    /\ trace' = [Quiet EXCEPT !.op = "rendered", !.noState = (GetCurrentEditorState = None)]
    /\ UNCHANGED <<docText, winActive, applied, timers, editorQueue, activeEditor,
                   currentMemoryUsage, maxMemoryUsage, visibleRanges, enabled, config, decorationRanges,
                   timeout, imageThreadMap, threads, threadCount, recency, burst, lastPass>>

----------------------------------------------------------------------------
(* The specification: the state after activate(), then any sequence of      *)
(* host events.                                                             *)

Plain(n) == [i \in 1..n |-> "t"]
OneLine == <<(<<0, 0>>)>>             \* the view of a document of one line
Budgets == {MaxBudget}

\* activate(): bootstrap() takes the window's active editor without caching
\* it, and triggers a render if it is a markdown editor
ActivatedWith(cfg) ==
    /\ applied = [d \in Docs |-> [k \in Kinds |-> <<>>]]
    /\ editors = EmptyMap
    /\ editorQueue = <<>>
    /\ activeEditor = IF IsMarkdown(winActive) THEN winActive ELSE None
    /\ currentMemoryUsage = 0
    /\ enabled = TRUE
    /\ config = cfg
    /\ decorationRanges = EmptyMap
    /\ timeout = IF IsMarkdown(winActive) THEN 1 ELSE NoTimer
    /\ timers = IF IsMarkdown(winActive) THEN {1} ELSE {}
    /\ traversals = [i \in Slots |-> IdleTraversal]
    /\ microtasks = <<>>
    /\ imageThreadMap = [d \in Docs |-> EmptyMap]
    /\ threads = {}
    /\ threadCount = 0
    /\ trace = Quiet
    /\ recency = <<>>
    /\ burst = [triggers |-> IF IsMarkdown(winActive) THEN 1 ELSE 0, runs |-> 0]
    /\ lastPass = NoPass

\* with both cursor options off, the defaults
Activated == ActivatedWith([cursorDisables |-> FALSE, cursorLineDisables |-> FALSE])

(* Spec: the document state cache under activations, edits, selection       *)
(* changes, configuration changes and renders of synchronous decorators.    *)

Texts == {Plain(n) : n \in 1..MaxLen}

Init ==
    /\ docText \in [Docs -> Texts]
    /\ winActive \in Editors
    /\ visibleRanges = OneLine
    /\ maxMemoryUsage \in Budgets
    /\ Activated

Next ==
    \/ \E editor \in Editors : ChangeActiveTextEditor(editor)
    \/ \E doc \in Docs, text \in Texts : ChangeTextDocument(doc, text)
    \/ ChangeTextEditorSelection(<<0, 0>>)
    \/ ChangeConfiguration
    \/ \E id \in timers : TimerFires(id)
    \/ Microtask

Spec == Init /\ [][Next]_vars

(* RenderSpec: the scheduler and the render pipeline on one document with    *)
(* decorated text, under activations of that document and of a non-markdown *)
(* editor, edits, selection changes, configuration changes, the toggle      *)
(* command, and the answers of the external mermaid renderer.               *)

RenderDoc == "A"
RenderTexts == {t \in UNION {[1..n -> {"e", "l", "m"}] : n \in 1..MaxLen} :
                   t \in {<<"e">>, <<"l", "m">>}}

RenderInit ==
    /\ docText \in {[d \in Docs |-> IF d = RenderDoc THEN t ELSE Plain(1)] : t \in RenderTexts}
    /\ winActive = RenderDoc
    /\ visibleRanges = OneLine
    /\ maxMemoryUsage \in Budgets
    /\ Activated

RenderNext ==
    \/ \E editor \in {RenderDoc, OtherEditor} : ChangeActiveTextEditor(editor)
    \/ \E text \in RenderTexts : ChangeTextDocument(RenderDoc, text)
    \/ ChangeTextEditorSelection(<<0, 0>>)
    \/ ChangeConfiguration
    \/ Toggle
    \/ \E id \in timers : TimerFires(id)
    \/ Microtask
    \/ \E slot \in Slots : MermaidRendered(slot)

RenderSpec == RenderInit /\ [][RenderNext]_vars

(* WindowSpec: the render pass on a document of more than 500 lines, under  *)
(* changes of the visible ranges, activations of the document and of a      *)
(* non-markdown editor, and configuration changes.  A line of the document  *)
(* is empty or holds one token.                                             *)

WinDoc == "A"

\* the text of `lines` lines whose line n holds the token marks[n]: the
\* token of line n sits after the n line ends and the tokens of the lines above
DocOfLines(lines, marks) ==
    LET at(n) == n + Cardinality({m \in DOMAIN marks : m < n}) + 1
    IN  [i \in 1..(lines - 1 + Cardinality(DOMAIN marks)) |->
            IF \E n \in DOMAIN marks : at(n) = i
            THEN marks[CHOOSE n \in DOMAIN marks : at(n) = i]
            ELSE "\n"]
LongDoc(marks) == DocOfLines(LongLines, marks)

\* the text of `lines` lines, all empty but line n, which holds `line`
DocWith(lines, n, line) ==
    [i \in 1..(lines - 1 + Len(line)) |->
        IF i > n /\ i <= n + Len(line) THEN line[i - n] ELSE "\n"]

\* three documents just over the threshold and one of exactly LineThreshold lines
WinTexts == {LongDoc(5 :> "e" @@ 8 :> "e" @@ 300 :> "e"),
             LongDoc(5 :> "i" @@ 300 :> "e"),
             LongDoc(5 :> "i" @@ 8 :> "i"),
             DocOfLines(LineThreshold, 5 :> "e" @@ 300 :> "e")}
Views == {<<(<<0, 10>>)>>, <<(<<0, 10>>), (<<450, 460>>)>>}

WindowInit ==
    /\ docText \in {[d \in Docs |-> IF d = WinDoc THEN t ELSE Plain(1)] : t \in WinTexts}
    /\ winActive = WinDoc
    /\ visibleRanges \in Views
    /\ maxMemoryUsage \in Budgets
    /\ Activated

WindowNext ==
    \/ \E editor \in {WinDoc, OtherEditor} : ChangeActiveTextEditor(editor)
    \/ \E ranges \in Views : ChangeVisibleRanges(ranges)
    \/ ChangeConfiguration
    \/ \E id \in timers : TimerFires(id)
    \/ Microtask

WindowSpec == WindowInit /\ [][WindowNext]_vars

(* VisitSpec: the traversal of trees with nested lists, under activations of *)
(* the document and of a non-markdown editor, renders and the answers of the *)
(* external renderer.                                                        *)

VisitDoc == "A"
VisitTexts == {<<"e", "n", "m">>, <<"n", "l">>}

VisitInit ==
    /\ docText \in {[d \in Docs |-> IF d = VisitDoc THEN t ELSE Plain(1)] : t \in VisitTexts}
    /\ winActive = VisitDoc
    /\ visibleRanges = OneLine
    /\ maxMemoryUsage \in Budgets
    /\ Activated

VisitNext ==
    \/ \E editor \in {VisitDoc, OtherEditor} : ChangeActiveTextEditor(editor)
    \/ \E id \in timers : TimerFires(id)
    \/ Microtask
    \/ \E slot \in Slots : MermaidRendered(slot)

VisitSpec == VisitInit /\ [][VisitNext]_vars

(* CursorSpec: the finalize step under the four settings of the two cursor   *)
(* options, on a document of two lines with an emphasis each, under          *)
(* selection changes, activations and renders.                               *)

CursorDoc == "A"
CursorText == <<"e", "\n", "e">>
Selections == {<<0, 0>>, <<2, 3>>, <<1, 2>>}
Configs == [cursorDisables : BOOLEAN, cursorLineDisables : BOOLEAN]

CursorInit ==
    /\ docText = [d \in Docs |-> IF d = CursorDoc THEN CursorText ELSE Plain(1)]
    /\ winActive = CursorDoc
    /\ visibleRanges = OneLine
    /\ maxMemoryUsage \in Budgets
    /\ \E cfg \in Configs : ActivatedWith(cfg)

CursorNext ==
    \/ \E editor \in {CursorDoc, OtherEditor} : ChangeActiveTextEditor(editor)
    \/ \E sel \in Selections : ChangeTextEditorSelection(sel)
    \/ ChangeConfiguration
    \/ \E id \in timers : TimerFires(id)
    \/ Microtask

CursorSpec == CursorInit /\ [][CursorNext]_vars

(* ImageSpec: the image list of a document of more than 500 lines whose      *)
(* visible ranges give one window or two windows that overlap, so that both  *)
(* traversals of a pass meet the same images.                                *)

ImageTexts == {LongDoc(5 :> "i" @@ 8 :> "i"), LongDoc(5 :> "i" @@ 300 :> "e")}
ImageViews == {<<(<<0, 10>>)>>, <<(<<0, 10>>), (<<20, 30>>)>>}

ImageInit ==
    /\ docText \in {[d \in Docs |-> IF d = WinDoc THEN t ELSE Plain(1)] : t \in ImageTexts}
    /\ winActive = WinDoc
    /\ visibleRanges \in ImageViews
    /\ maxMemoryUsage \in Budgets
    /\ Activated

ImageNext ==
    \/ \E editor \in {WinDoc, OtherEditor} : ChangeActiveTextEditor(editor)
    \/ \E ranges \in ImageViews : ChangeVisibleRanges(ranges)
    \/ \E id \in timers : TimerFires(id)
    \/ Microtask

ImageSpec == ImageInit /\ [][ImageNext]_vars

(* PrefixSpec: the render pass on a document of more than 500 lines with an  *)
(* indented list item on line 300, seen through one visible range: the       *)
(* window holds the item, so normalizeList prepends its prefix.              *)

PrefixTexts == {DocWith(LongLines, 300, Spaces(4) \o <<"*", " ", "e">>),
                DocWith(LongLines, 300, Spaces(8) \o <<"*", " ", "e">>),
                DocWith(LongLines, 300, <<"e">>)}
PrefixViews == {<<(<<450, 460>>)>>, <<(<<300, 310>>)>>, <<(<<0, 10>>)>>}

PrefixInit ==
    /\ docText \in {[d \in Docs |-> IF d = WinDoc THEN t ELSE Plain(1)] : t \in PrefixTexts}
    /\ winActive = WinDoc
    /\ visibleRanges \in PrefixViews
    /\ maxMemoryUsage \in Budgets
    /\ Activated

PrefixNext ==
    \/ \E editor \in {WinDoc, OtherEditor} : ChangeActiveTextEditor(editor)
    \/ \E ranges \in PrefixViews : ChangeVisibleRanges(ranges)
    \/ \E id \in timers : TimerFires(id)
    \/ Microtask

PrefixSpec == PrefixInit /\ [][PrefixNext]_vars

(* SwitchSpec: two tracked documents, one of them with a mermaid block, under *)
(* activations of either, renders and the answers of the external renderer. *)

SwitchDocs == {"A", "B"}
SwitchText == [d \in Docs |-> IF d = "A" THEN <<"m">> ELSE Plain(1)]

SwitchInit ==
    /\ docText = SwitchText
    /\ winActive \in SwitchDocs
    /\ visibleRanges = OneLine
    /\ maxMemoryUsage \in Budgets
    /\ Activated

\* The ranges a cached document holds grow without limit when traversals of
\* another document keep resuming on it, so a switch is taken only below MaxStale
RangeCount(info) ==
    SumOver([k \in DOMAIN info.decorationRanges |-> Len(info.decorationRanges[k])],
            DOMAIN info.decorationRanges)
BelowStale == \A d \in DOMAIN editors : RangeCount(editors[d]) < MaxStale

SwitchNext ==
    \/ \E editor \in SwitchDocs : BelowStale /\ ChangeActiveTextEditor(editor)
    \/ \E id \in timers : TimerFires(id)
    \/ Microtask
    \/ \E slot \in Slots : MermaidRendered(slot)

SwitchSpec == SwitchInit /\ [][SwitchNext]_vars

(* CleanSpec: checkAndCleanMemory on its own, one iteration of its loop per  *)
(* step, from the cache states setActiveEditor can call it in: the queue     *)
(* lists the cached documents, the last of them the one just pushed; the     *)
(* active pointer is still the old one, cached or not; the running total and *)
(* the budget are any numbers.  trace.op tells whether the call is running.  *)

Orders(S) == {q \in [1..Cardinality(S) -> S] : \A i, j \in DOMAIN q : q[i] = q[j] => i = j}

CleanInit ==
    /\ docText \in [Docs -> Texts]
    /\ winActive \in Docs
    /\ visibleRanges = OneLine
    /\ maxMemoryUsage \in 0..MaxBudget
    /\ \E S \in SUBSET Docs \ {{}} :
          /\ editors = [d \in S |-> MarkdownEditorInfo(d)]
          /\ editorQueue \in Orders(S)
    /\ editorQueue[Len(editorQueue)] = winActive
    /\ activeEditor \in (Docs \ {winActive}) \cup {None}
    /\ currentMemoryUsage \in 0..MaxUsage
    /\ applied = [d \in Docs |-> [k \in Kinds |-> <<>>]]
    /\ enabled = TRUE
    /\ config = [cursorDisables |-> FALSE, cursorLineDisables |-> FALSE]
    /\ decorationRanges = EmptyMap
    /\ timeout = NoTimer
    /\ timers = {}
    /\ traversals = [i \in Slots |-> IdleTraversal]
    /\ microtasks = <<>>
    /\ imageThreadMap = [d \in Docs |-> EmptyMap]
    /\ threads = {}
    /\ threadCount = 0
    /\ trace = [Quiet EXCEPT !.op = "clean"]
    /\ recency = <<>>
    /\ burst = [triggers |-> 0, runs |-> 0]
    /\ lastPass = NoPass

\* the loop condition of checkAndCleanMemory
OverBudget == currentMemoryUsage > maxMemoryUsage /\ Len(editorQueue) > 1

\* one iteration of the loop
CleanStep ==
    /\ trace.op = "clean"
    /\ OverBudget
    /\ LET c == EvictStep([CacheNow EXCEPT !.evicted = trace.evicted,
                                           !.requeued = trace.requeued], activeEditor)
       IN  /\ editors' = c.editors
           /\ editorQueue' = c.queue
           /\ currentMemoryUsage' = c.usage
           /\ applied' = ApplyCalls(applied, c.calls)
           /\ trace' = [trace EXCEPT !.calls = c.calls, !.evicted = c.evicted,
                                     !.requeued = c.requeued]
    /\ UNCHANGED <<docText, winActive, visibleRanges, timers, activeEditor, maxMemoryUsage,
                   enabled, config, decorationRanges, timeout, traversals, microtasks,
                   imageThreadMap, threads, threadCount, recency, burst, lastPass>>

\* the loop condition fails: the call returns
CleanReturn ==
    /\ trace.op = "clean"
    /\ ~OverBudget
    /\ trace' = [trace EXCEPT !.op = "cleaned"]
    /\ UNCHANGED <<docText, winActive, visibleRanges, applied, timers, editors, editorQueue,
                   activeEditor, currentMemoryUsage, maxMemoryUsage, enabled, config,
                   decorationRanges, timeout, traversals, microtasks, imageThreadMap,
                   threads, threadCount, recency, burst, lastPass>>

CleanNext == CleanStep \/ CleanReturn

CleanSpec == CleanInit /\ [][CleanNext]_vars

\* The loop is synchronous code: an iteration that can run does run.
CleanFair == CleanSpec /\ WF_vars(CleanStep) /\ WF_vars(CleanReturn)

(* NormSpec: normalizeList on its own.  The initial states are the states   *)
(* of constructDecorations(range) just before it calls normalizeList: the   *)
(* active document is cached, its state holds the text of the window and    *)
(* the offset of the window's start.                                        *)

NormDoc == "A"
NormLines == {<<>>, <<"a">>,
              <<" ", " ", "*", " ", "a">>,
              <<" ", " ", "1", ".", " ", "a">>,
              <<" ", " ", " ", " ", "*", " ", "a">>,
              <<" ", " ", " ", " ", "1", ")", " ", "a">>,
              <<" ", " ", " ", " ", " ", " ", "+", " ", "a">>,
              <<"~", "~", "~">>,
              <<"~", "~", "~", "~">>}
NormTexts == {l \o <<"\n">> : l \in NormLines}
             \cup {l1 \o <<"\n">> \o l2 \o <<"\n">> : l1 \in NormLines, l2 \in NormLines}

NormInit ==
    /\ docText = [d \in Docs |-> Plain(1)]
    /\ winActive = NormDoc
    /\ maxMemoryUsage \in Budgets
    /\ applied = [d \in Docs |-> [k \in Kinds |-> <<>>]]
    /\ \E text \in NormTexts, offset \in 0..MaxOffset :
           editors = [d \in {NormDoc} |->
                         [MarkdownEditorInfo(NormDoc) EXCEPT !.text = text, !.offset = offset]]
    /\ editorQueue = <<NormDoc>>
    /\ activeEditor = NormDoc
    /\ currentMemoryUsage = CalculateSize(MarkdownEditorInfo(NormDoc))
    /\ enabled = TRUE
    /\ config = [cursorDisables |-> FALSE, cursorLineDisables |-> FALSE]
    /\ decorationRanges = EmptyMap
    /\ timeout = NoTimer
    /\ timers = {}
    /\ traversals = [i \in Slots |-> IdleTraversal]
    /\ microtasks = <<>>
    /\ imageThreadMap = [d \in Docs |-> EmptyMap]
    /\ threads = {}
    /\ threadCount = 0
    /\ trace = Quiet
    /\ recency = <<NormDoc>>
    /\ burst = [triggers |-> 0, runs |-> 0]
    /\ lastPass = NoPass
    /\ visibleRanges = OneLine

\* the call normalizeList() of constructDecorations(range)
NormalizeListCall ==
    /\ trace.op = "init"
    /\ GetCurrentEditorState # None
    /\ editors' = [editors EXCEPT ![GetCurrentEditorState] = NormalizeList(@)]
    /\ trace' = [Quiet EXCEPT !.op = "normalize"]
    /\ UNCHANGED <<docText, winActive, applied, timers, editorQueue, activeEditor,
                   currentMemoryUsage, maxMemoryUsage, visibleRanges, enabled, config, decorationRanges,
                   timeout, traversals, microtasks, imageThreadMap, threads, threadCount,
                   recency, burst, lastPass>>

NormNext == NormalizeListCall

NormSpec == NormInit /\ [][NormNext]_vars

----------------------------------------------------------------------------
(* Claims about the document state cache *)

\* A step is a successful activation (setActiveEditor returned true) exactly
\* when the window's active editor changes to a markdown document.
Activation == winActive' # winActive /\ IsMarkdown(winActive')
Activated1 == trace.op = "activate" /\ IsMarkdown(winActive)

Last(q) == q[Len(q)]
Before(q, x, y) == \E i, j \in 1..Len(q) : i < j /\ q[i] = x /\ q[j] = y

\* C1: after setActiveEditor(d) returns true for a markdown document d, the
\* cache holds a DocumentState for d and d is the active document, so
\* getCurrentEditorState() returns d's state.
C1_ActivatedIsCachedAndActive ==
    Activated1 => /\ winActive \in DOMAIN editors
                  /\ activeEditor = winActive
                  /\ GetCurrentEditorState = winActive

\* C2: eviction never removes the state of the active document, the one
\* setActiveEditor has just marked active: an activation step evicts only
\* other documents, and when it requeues the least recently used entry, that
\* entry is the active document, which stays cached at the tail.
C2_ActiveNeverEvicted ==
    Activated1 =>
        /\ winActive \notin ToSet(trace.evicted)
        /\ trace.requeued => /\ editorQueue # <<>>
                             /\ Last(editorQueue) = winActive
                             /\ winActive \in DOMAIN editors

\* C3: the access-order queue has no duplicate uri and its elements are
\* exactly the keys of the cache map, so its length is the cache's key count.
C3_QueueMatchesCache ==
    /\ NoDup(editorQueue)
    /\ ToSet(editorQueue) = DOMAIN editors
    /\ Len(editorQueue) = Cardinality(DOMAIN editors)

\* An eviction has just run and left more than one document cached.
C3_Witness ==
    /\ trace.evicted # <<>>
    /\ Len(editorQueue) >= 2

\* C4: currentMemoryUsage is the sum of the size fields of the cached
\* DocumentStates.
C4_UsageIsSumOfSizes == currentMemoryUsage = CachedSize(editors)

\* C5: after any setActiveEditor call that returns true, first activation or
\* reactivation, usage is within the budget or exactly one document is cached.
C5_EvictionOnEveryActivation ==
    Activated1 => \/ currentMemoryUsage <= maxMemoryUsage
                  \/ Cardinality(DOMAIN editors) = 1

\* C6: after an activation has stabilised, the cache holds the active document
\* plus the most recently used other documents, as many as fit the budget
\* together with it; every less recently used document is evicted.
\* cand: the documents up for retention, least recently used first, the
\* activated one last; size[x]: their footprints.
RECURSIVE KeepRun(_, _, _)
KeepRun(mruFirst, size, room) ==
    IF mruFirst = <<>> \/ size[Head(mruFirst)] > room THEN {}
    ELSE {Head(mruFirst)} \cup KeepRun(Tail(mruFirst), size, room - size[Head(mruFirst)])

Reverse(q) == [i \in 1..Len(q) |-> q[Len(q) + 1 - i]]

C6_RetainsActivePlusRecentRun ==
    [][Activation =>
        LET d == winActive'
            others == Without(recency, d)
            size == [x \in ToSet(others) \cup {d} |->
                        IF x = d THEN TextWeight * Len(docText[d]) ELSE editors[x].size]
        IN  DOMAIN editors' =
                {d} \cup KeepRun(Reverse(others), size, maxMemoryUsage - size[d])]_vars

\* C7: a non-active document is evicted only after every non-active document
\* activated less recently than it has been evicted; and activating a, b, c in
\* that order, each of footprint 0.4 x budget, a never reactivated, leaves
\* exactly b and c cached.
\* order: the cached documents and the one being activated, least recently
\* activated first.  A step evicts x and keeps a less recently activated y
\* only when one of the two is the active document: x the document being
\* activated, y the one state.activeEditor still points at.
C7_EvictionInLruOrder ==
    [][/\ LET order == IF Activation
                        THEN Append(Without(recency, winActive'), winActive')
                        ELSE recency
          IN  \A x \in ToSet(order) \ DOMAIN editors' :
                \A y \in DOMAIN editors' :
                    Before(order, y, x)
                    => (Activation /\ x = winActive' /\ y = activeEditor)
       /\ \A a, b \in Docs :
            (/\ Activation
             /\ editorQueue = <<a, b>> /\ DOMAIN editors = {a, b} /\ a # b
             /\ activeEditor = b
             /\ winActive' \notin {a, b}
             /\ \A x \in {a, b} : 5 * editors[x].size = 2 * maxMemoryUsage
             /\ 5 * TextWeight * Len(docText[winActive']) = 2 * maxMemoryUsage
             /\ currentMemoryUsage = CachedSize(editors))
            => /\ DOMAIN editors' = {b, winActive'}
               /\ editorQueue' = <<b, winActive'>>
               /\ trace'.evicted = <<a>>]_vars

\* The third of three documents of 0.4 x budget each has just been activated
\* and the least recently used one was evicted.
C7_Witness ==
    /\ Activated1
    /\ Len(trace.evicted) = 1
    /\ ~trace.requeued
    /\ Len(editorQueue) = 2
    /\ \A x \in DOMAIN editors : 5 * editors[x].size = 2 * maxMemoryUsage
    /\ currentMemoryUsage = CachedSize(editors)

----------------------------------------------------------------------------
(* Claims about the scheduler and the render pipeline *)

\* C8: at most one render timer is pending; each trigger cancels the pending
\* timer and schedules a new one; and after the last trigger of a burst there
\* is exactly one updateDecorations run, pending or done.
C8_TriggersCoalesce ==
    [][/\ Cardinality(timers') <= 1
       /\ timeout' # timeout => /\ timers' = {timeout'}
                                /\ timeout \notin timers'
                                /\ burst'.runs = 0
       /\ burst'.triggers >= 1 => Cardinality(timers') + burst'.runs = 1]_vars

\* A burst of two or more triggers has had its one run.
C8_Witness ==
    /\ trace.op = "render"
    /\ burst.triggers >= 2
    /\ burst.runs = 1
    /\ timers = {}

\* C9: when the extension is toggled from enabled to disabled, every
\* decoration kind that has applied ranges for the active document receives
\* an apply call with an empty range list.
C9_DisableClearsDecorations ==
    [][(enabled /\ ~enabled' /\ activeEditor # None) =>
          \A k \in Kinds :
              applied[activeEditor][k] # <<>> =>
                  /\ \E i \in 1..Len(trace'.calls) :
                        trace'.calls[i] = [call |-> "setDecorations", doc |-> activeEditor,
                                           kind |-> k, ranges |-> <<>>]
                  /\ applied'[activeEditor][k] = <<>>]_vars

\* C10: with no current editor state, a step of the pipeline (a run of
\* updateDecorations, a resumption of visitNodes, the decorators' calls of
\* posToRange and addDecoration, setDecorations with addInlineImages) makes
\* no host call, changes no cache or document state and raises no error.
PipelineStep == trace'.op \in {"render", "visit", "finalize", "rendered"}

C10_NoStateNoOp ==
    [][(PipelineStep /\ GetCurrentEditorState = None) =>
          /\ trace'.calls = <<>>
          /\ ~trace'.error
          /\ UNCHANGED <<docText, applied, editors, editorQueue, activeEditor,
                         currentMemoryUsage, imageThreadMap, threads, threadCount>>]_vars

----------------------------------------------------------------------------
(* More claims about the document state cache *)

\* C19: activating a document that is not tracked (or no editor) clears the
\* active pointer and returns false, so the handler triggers no render, and
\* leaves the cache map, the queue, every cached DocumentState and
\* currentMemoryUsage unchanged.
C19_NonTrackedActivationFrame ==
    [][(winActive' # winActive /\ ~IsMarkdown(winActive')) =>
          /\ activeEditor' = None
          /\ GetCurrentEditorState' = None
          /\ UNCHANGED <<editors, editorQueue, currentMemoryUsage, timers, timeout>>]_vars

\* A non-markdown editor has just been activated over a cache of two documents.
C19_Witness ==
    /\ trace.op = "activate"
    /\ winActive = OtherEditor
    /\ activeEditor = None
    /\ Len(editorQueue) >= 2

----------------------------------------------------------------------------
(* Claims about the traversal *)

\* C13: a failing decorator call does not end the traversal: no exception
\* escapes a step of visitNodes, and after a step that ran decorators the
\* traversal is still in flight, to visit the remaining nodes and finalize.
C13_FailuresIsolated ==
    [][/\ ~trace'.error
       /\ trace'.op = "visit" => traversals'[Head(microtasks)].status # "idle"
       /\ (trace'.op = "render" /\ GetCurrentEditorState # None)
             => traversals' # traversals]_vars

\* the decorator calls due for the nodes of a tree, each with the number of
\* list items above the node, by a walk down the children
RECURSIVE Decorated(_, _)
RECURSIVE DecoratedAll(_, _)
Decorated(node, depth) ==
    (IF HasDecorator(node.type) THEN <<Invocation(node, depth)>> ELSE <<>>)
    \o DecoratedAll(node.children, IF node.type = "listItem" THEN depth + 1 ELSE depth)
DecoratedAll(nodes, depth) ==
    IF nodes = <<>> THEN <<>>
    ELSE Decorated(Head(nodes), depth) \o DecoratedAll(Tail(nodes), depth)

Times(q, x) == Cardinality({i \in DOMAIN q : q[i] = x})
SameBag(p, q) == Len(p) = Len(q) /\ \A i \in DOMAIN p : Times(p, p[i]) = Times(q, p[i])
SubBag(p, q) == \A i \in DOMAIN p : Times(p, p[i]) <= Times(q, p[i])
Offsets(q) == [i \in DOMAIN q |-> [type |-> q[i].type, start |-> q[i].start, end |-> q[i].end]]
ListItems(q) == SelectSeq(q, LAMBDA x : x.type = "listItem")
DueFor(trav) == Decorated(Parser(docText[trav.doc]), 0)

\* C28: visitNodes terminates and calls the decorator exactly once for every
\* node of the tree whose type has one, with the node's own offsets, and calls
\* nothing else: a traversal in flight has called no node more often than the
\* tree holds it, and a traversal leaves its slot only after its loop has
\* ended, with exactly the decorated nodes of its tree called.
C28_EveryDecoratedNodeOnce ==
    [][\A slot \in Slots :
          /\ traversals[slot].status # "idle" =>
                 SubBag(Offsets(traversals[slot].seen), Offsets(DueFor(traversals[slot])))
          /\ (traversals[slot].status # "idle" /\ traversals'[slot].status = "idle") =>
                 /\ traversals[slot].phase = "finalize"
                 /\ SameBag(Offsets(traversals[slot].seen),
                            Offsets(DueFor(traversals[slot])))]_vars

\* C29: the listLevel passed to the list-item decorator is the number of
\* list items above the node: the calls a traversal has made for list items
\* are among the ones the tree gives with that depth, and when its loop has
\* ended they are exactly those; the level of an item never shows in a sibling.
C29_DepthIsListItemAncestors ==
    \A slot \in Slots :
        traversals[slot].status # "idle" =>
            /\ SubBag(ListItems(traversals[slot].seen), ListItems(DueFor(traversals[slot])))
            /\ traversals[slot].phase = "finalize" =>
                   SameBag(ListItems(traversals[slot].seen),
                           ListItems(DueFor(traversals[slot])))
C29_Witness ==
    \E slot \in Slots :
        /\ traversals[slot].status # "idle"
        /\ traversals[slot].phase = "finalize"
        /\ \E i, j \in DOMAIN traversals[slot].seen :
              /\ i < j
              /\ traversals[slot].seen[i].type = "listItem"
              /\ traversals[slot].seen[i].level = 2
              /\ traversals[slot].seen[j].type = "listItem"
              /\ traversals[slot].seen[j].level = 0

\* C16: a traversal started by constructDecorations ends only through its
\* finalize step, which runs once, with no node left on the stack and no
\* decorator call pending.
C16_FinalizeOnceAfterAllDecorators ==
    [][\A slot \in Slots :
          /\ (traversals[slot].status # "idle" /\ traversals'[slot].status = "idle")
                => (traversals[slot].phase = "finalize" /\ trace'.op = "finalize")
          /\ (traversals'[slot].status # "idle" /\ traversals'[slot].phase = "finalize")
                => (traversals'[slot].stack = <<>> /\ traversals'[slot].cur = NoNode)]_vars

\* C17: one decorator call per traversal is awaited at a time, and nodes are
\* decorated in source order: while the call for a node is awaited, every
\* node still to be visited starts no earlier in the source than it.
C17_SourceOrder ==
    \A slot \in Slots :
        (traversals[slot].status # "idle" /\ traversals[slot].phase = "visit") =>
            \A i \in 1..Len(traversals[slot].stack) :
                traversals[slot].stack[i].node.start >= traversals[slot].cur.start

\* C20: when every traversal has finished and nothing is scheduled, the host
\* shows for each decoration kind exactly the ranges that one pass over the
\* latest text produces; no range of an earlier, overlapped pass remains.
\* RunToEnd: a traversal run alone to its end, the mermaid renderer answering
\* at once.
RECURSIVE RunToEnd(_, _)
RunToEnd(r, uri) ==
    IF r.outcome \in {"done", "error"} THEN r.editors
    ELSE LET e1 == IF r.outcome = "waiting" THEN DecCodeResume(r.editors, uri, r.cur)
                   ELSE r.editors
         IN  RunToEnd(VisitResume([stack |-> r.stack, cur |-> r.cur, level |-> r.level], e1),
                      uri)

PassAlone(uri) ==
    LET e0 == [editors EXCEPT ![uri].decorationRanges = EmptyMap,
                              ![uri].text = docText[uri],
                              ![uri].offset = 0]
    IN  RunToEnd(VisitLoop(<<Entry(Parser(docText[uri]), 0)>>, e0), uri)[uri].decorationRanges

Quiescent ==
    /\ enabled
    /\ timers = {}
    /\ microtasks = <<>>
    /\ \A slot \in Slots : traversals[slot].status = "idle"

C20_LaterPassWins ==
    (Quiescent /\ GetCurrentEditorState # None /\ trace.op = "finalize") =>
        LET uri == GetCurrentEditorState
            dr == PassAlone(uri)
        IN  \A k \in Kinds :
                ToSet(applied[uri][k]) = IF k \in DOMAIN dr THEN ToSet(dr[k]) ELSE {}


\* C22: a document leaves the cache only in an activation, only when the
\* running total exceeded the budget and more than one document was cached
\* before its eviction; no step empties a non-empty cache; and an activation
\* of a new document whose footprint fits the budget only adds the document:
\* nothing is evicted, the queue gets the document appended and the total its size.
SizeAtEviction(d) ==
    IF d \in DOMAIN editors THEN editors[d].size ELSE MarkdownEditorInfo(d).size
C23_ActivatedIsLastInQueue ==
    [][(trace'.op = "activate" /\ IsMarkdown(winActive')) =>
          (editorQueue' # <<>> /\ Last(editorQueue') = winActive')]_vars

\* C24: while the extension is disabled no render pass runs and no decoration
\* is applied to the host: no step taken from a disabled state is a run of
\* updateDecorations that finds an editor state and starts a pass, and none
\* makes a host call with a non-empty range list; so a timer pending at the
\* disable leads to no render.
C24_DisabledRendersNothing ==
    [][~enabled =>
          /\ ~(trace'.op = "render" /\ ~trace'.noState)
          /\ \A i \in 1..Len(trace'.calls) : trace'.calls[i].ranges = <<>>]_vars

\* C26: checkAndCleanMemory terminates: from every cache state it can be
\* called in, for every budget, running total, footprints and active pointer
\* (at the head of the queue and requeued, or matching no cached document),
\* the loop reaches its exit.
C26_CleanTerminates == <>(trace.op = "cleaned")
C26_Witness ==
    /\ trace.op = "cleaned"
    /\ trace.requeued
    /\ trace.evicted # <<>>
    /\ currentMemoryUsage > maxMemoryUsage

\* C21: a traversal only affects the document it was started for: when
\* another tracked document has become the active one while the traversal was
\* suspended, the steps of the traversal (the completion of its asynchronous
\* decorator, its resumptions, its finalize step) add no range and no image
\* entry to the state of the document now active and make no host call.
C21_TraversalKeepsToItsDocument ==
    [][\A slot \in Slots :
          (/\ trace'.op \in {"rendered", "visit", "finalize"}
           /\ traversals'[slot] # traversals[slot]
           /\ GetCurrentEditorState # None
           /\ traversals[slot].doc # GetCurrentEditorState) =>
              /\ editors'[GetCurrentEditorState].decorationRanges
                    = editors[GetCurrentEditorState].decorationRanges
              /\ editors'[GetCurrentEditorState].imageList
                    = editors[GetCurrentEditorState].imageList
              /\ trace'.calls = <<>>]_vars

(* Claims about the windows of a long document *)

\* C14: in windowed mode each window's traversal uses its own offset base:
\* whenever a traversal resumes and its decorators record ranges, the ranges
\* are the ones the nodes' tree-relative offsets give with the offset base
\* computed for that traversal's window, however many windows the pass has and
\* however their traversals interleave.
C14_OwnOffsetBase ==
    [][(trace'.op = "visit" /\ GetCurrentEditorState # None) =>
          LET uri == GetCurrentEditorState
              trav == traversals[Head(microtasks)]
              own == VisitResume(trav, [editors EXCEPT ![uri].offset = trav.base])
          IN  editors'[uri].decorationRanges = own.editors[uri].decorationRanges]_vars

\* what constructDecorations(range) records for `uri` when it is the only
\* window and runs to its end undisturbed
AloneFrom(uri, e1) ==
    RunToEnd(VisitLoop(<<Entry(Parser(e1[uri].text), 0)>>, e1), uri)[uri].decorationRanges
WindowAlone(uri, range) ==
    AloneFrom(uri, WindowState([editors EXCEPT ![uri].decorationRanges = EmptyMap], uri, range))
RangesOf(dr, k) == IF k \in DOMAIN dr THEN ToSet(dr[k]) ELSE {}

\* C15: when a pass processes several visible ranges, once all its window
\* traversals have finished the ranges applied to the host for each kind are
\* the union of the ranges each window produces when processed alone.
C15_WindowsAccumulate ==
    (/\ Quiescent
     /\ GetCurrentEditorState # None
     /\ trace.op = "finalize"
     /\ Len(Windows(GetCurrentEditorState)) > 1) =>
        LET uri == GetCurrentEditorState
            ws == Windows(uri)
        IN  \A k \in Kinds :
                ToSet(applied[uri][k]) =
                    UNION {RangesOf(WindowAlone(uri, ws[i]), k) : i \in 1..Len(ws)}

\* the traversals a step has started
Started == {i \in Slots : traversals[i].status = "idle" /\ traversals'[i].status # "idle"}

C30_CursorOptionsFilter ==
    [][(trace'.op = "finalize" /\ GetCurrentEditorState # None) =>
          LET uri == GetCurrentEditorState
              sel == editors[uri].selection
              dr == editors[uri].decorationRanges
          IN  \A k \in DOMAIN dr :
                  \E i \in 1..Len(trace'.calls) :
                      /\ trace'.calls[i].call = "setDecorations"
                      /\ trace'.calls[i].kind = k
                      /\ trace'.calls[i].ranges =
                            IF config.cursorLineDisables
                            THEN Filter(dr[k], LinesOf(docText[uri], sel))
                            ELSE IF config.cursorDisables THEN Filter(dr[k], sel)
                            ELSE dr[k]]_vars

(* Claims about repeated passes and the image annotations *)

\* C11: a render pass that runs after a complete pass on the same document
\* with unchanged text, selection and visible ranges creates no annotation
\* handle and disposes none, and once it is complete the host shows for each
\* decoration kind the same set of ranges as after the first pass.
C11_PipelineIdempotent ==
    [][(trace'.op = "finalize" /\ lastPass.complete /\ GetCurrentEditorState # None) =>
          /\ \A i \in 1..Len(trace'.calls) :
                 trace'.calls[i].call \notin {"createCommentThread", "dispose"}
          /\ (\A slot \in Slots : traversals'[slot].status = "idle") =>
                 \A k \in Kinds : ToSet(applied'[GetCurrentEditorState][k])
                                     = ToSet(lastPass.applied[k])]_vars

\* C12: addInlineImages reconciles two successive generations of one document
\* by the key (document, range, target): a key in both keeps its handle and
\* causes no create or dispose, a key only in the new generation gets exactly
\* one new handle, a key only in the old one has its handle disposed once, and
\* afterwards the stored map holds exactly the keys of the new generation.
C12_Reconciliation ==
    [][(trace'.op = "finalize" /\ GetCurrentEditorState # None) =>
          LET uri == GetCurrentEditorState
              old == imageThreadMap[uri]
              new == imageThreadMap'[uri]
              list == editors[uri].imageList
              OldKeys == {<<old[k].range, k[3]>> : k \in DOMAIN old}
              NewKeys == {<<list[i][1], list[i][2]>> : i \in 1..Len(list)}
              Count(c) == Cardinality({i \in 1..Len(trace'.calls) : trace'.calls[i].call = c})
          IN  /\ Count("createCommentThread") = Cardinality(NewKeys \ OldKeys)
              /\ Count("dispose") = Cardinality(OldKeys \ NewKeys)
              /\ \A k \in DOMAIN old :
                     <<old[k].range, k[3]>> \in NewKeys =>
                         (old[k].id \in threads' /\ \E n \in DOMAIN new : new[n] = old[k])
              /\ {<<new[k].range, k[3]>> : k \in DOMAIN new} = NewKeys
              /\ Cardinality(DOMAIN new) = Cardinality(NewKeys)]_vars

\* the image entries constructDecorations(range) queues for `uri` when it is
\* the only window and runs to its end undisturbed
ImagesFrom(uri, e1) ==
    ToSet(RunToEnd(VisitLoop(<<Entry(Parser(e1[uri].text), 0)>>, e1), uri)[uri].imageList)
ImagesAlone(uri, range) ==
    ImagesFrom(uri, WindowState([editors EXCEPT ![uri].decorationRanges = EmptyMap,
                                                ![uri].imageList = <<>>], uri, range))
LiveOf(m) == {<<m[k].range, k[3]>> : k \in {n \in DOMAIN m : m[n].id \in threads}}

\* C25: once every window traversal of a pass over several visible ranges has
\* finished, the live annotation handles of the active document are exactly
\* the image annotations the windows of the pass produce: none of them has been
\* disposed or dropped by the finalize step of another window.
C25_HandlesOfAllWindows ==
    (/\ Quiescent
     /\ GetCurrentEditorState # None
     /\ trace.op = "finalize"
     /\ Len(Windows(GetCurrentEditorState)) > 1) =>
        LiveOf(imageThreadMap[GetCurrentEditorState]) =
            UNION {ImagesAlone(GetCurrentEditorState, Windows(GetCurrentEditorState)[i]) :
                       i \in 1..Len(Windows(GetCurrentEditorState))}

\* C31: the pending image list of a document never holds two entries with
\* the same start position and the same target, and a finalize step creates at
\* most one annotation handle for a start position and a target.
C31_ImageListDeduplicated ==
    /\ \A d \in DOMAIN editors :
           \A i, j \in 1..Len(editors[d].imageList) :
               (/\ editors[d].imageList[i][1][1] = editors[d].imageList[j][1][1]
                /\ editors[d].imageList[i][2] = editors[d].imageList[j][2]) => i = j
    /\ trace.op = "finalize" =>
           \A i, j \in 1..Len(trace.calls) :
               (/\ trace.calls[i].call = "createCommentThread"
                /\ trace.calls[j].call = "createCommentThread"
                /\ trace.calls[i].ranges[1][1] = trace.calls[j].ranges[1][1]) => i = j
C31_Witness ==
    /\ GetCurrentEditorState # None
    /\ \E s1, s2 \in Slots :
          /\ s1 # s2
          /\ traversals[s1].status # "idle"
          /\ traversals[s2].status # "idle"
          /\ \E i \in DOMAIN traversals[s1].seen, j \in DOMAIN traversals[s2].seen :
                /\ traversals[s1].seen[i].type = "image"
                /\ traversals[s2].seen[j].type = "image"
                /\ traversals[s1].seen[i].start + traversals[s1].base
                      = traversals[s2].seen[j].start + traversals[s2].base
                /\ Cardinality({k \in 1..Len(editors[GetCurrentEditorState].imageList) :
                       editors[GetCurrentEditorState].imageList[k][1][1]
                           = traversals[s1].seen[i].start + traversals[s1].base}) = 1

\* C32: the prefix of the list normalizer only steers the parser: after
\* every step of a pass over one window of a long document, each range
\* recorded for the document lies inside the window, from the offset of the
\* window's first line to the offset of its end; none lies on the text before
\* the window's start.
C32_RangesInsideWindow ==
    [][(/\ trace'.op \in {"render", "visit"}
        /\ GetCurrentEditorState # None
        /\ LineCount(docText[GetCurrentEditorState]) > LineThreshold
        /\ Len(visibleRanges) = 1) =>
          LET uri == GetCurrentEditorState
              w == Windows(uri)[1]
              dr == editors'[uri].decorationRanges
          IN  \A k \in DOMAIN dr : \A i \in 1..Len(dr[k]) :
                  /\ OffsetAt(docText[uri], w[1]) <= dr[k][i][1]
                  /\ dr[k][i][2] <= OffsetAt(docText[uri], w[2])]_vars

(* Claims about the list normalizer *)

\* C18: normalizeList keeps every position of the slice at its absolute
\* document offset: when it prepends a prefix, position p of the old text is
\* position p + Len(prefix) of the new text and the new offset base is the old
\* one less Len(prefix); it prepends the prefix only when the offset base is at
\* least Len(prefix), so the base never becomes negative, and otherwise it
\* leaves text and offset base unchanged.
C18_NormalizerRoundTrip ==
    [][trace'.op = "normalize" =>
          LET old == editors[NormDoc]
              new == editors'[NormDoc]
              prefix == Prefix(old.text)
              n == Len(new.text) - Len(old.text)
          IN  /\ new.offset >= 0
              /\ n >= 0
              /\ Len(new.text) = n + Len(old.text)
              /\ \A p \in 1..Len(old.text) :
                     /\ new.text[p + n] = old.text[p]
                     /\ (p + n) + new.offset = p + old.offset
              /\ n > 0 => (old.offset >= n /\ SubSeq(new.text, 1, n) = prefix)
              /\ (prefix = <<>> \/ old.offset < Len(prefix)) => new = old]_vars
C18_Witness ==
    /\ trace.op = "normalize"
    /\ Len(editors[NormDoc].text) > 11
    /\ editors[NormDoc].offset = 1
    /\ SubSeq(editors[NormDoc].text, 1, 4) = <<"*", " ", "a", "\n">>

====
